---- MODULE Spec2Model ----
(***************************************************************************)
(* Asynchronous IoTHub clients (azure/iot/device/iothub/aio/               *)
(* async_clients.py): GenericIoTHubClient, IoTHubDeviceClient and          *)
(* IoTHubModuleClient over a callback-style pipeline.                      *)
(*                                                                         *)
(* Each client coroutine is a task whose position (pc) moves from one      *)
(* await to the next.  The pipeline is the environment: it returns from    *)
(* (or raises in) the call run by the executor, invokes the callback it    *)
(* was given, delivers inbound events to the registered handlers and       *)
(* notifies connection state changes.                                      *)
(***************************************************************************)
EXTENDS Naturals, Sequences, FiniteSets

\* ------------------------------------------------------------------ bounds
NumTasks == 2
MaxEvents == 2

Tasks == 1..NumTasks

\* ------------------------------------------------------------- vocabulary
METHODS == "methods"
C2D_MSG == "c2d"
INPUT_MSG == "input"
Features == {METHODS, C2D_MSG, INPUT_MSG}

ClientKinds == {"device", "module"}
MethodNames == {"reboot"}
InputNames == {"A", "B"}
None == "<None>"
GENERIC == "<generic>"
DEFAULT == "<c2d>"
States == {"connected", "disconnected"}
Outcomes == {"ok", "fail"}

OutputNames == {"out1"}

\* Inbox identities: <<category, key>>.
GenericBox == <<"method", GENERIC>>
C2DBox == <<"c2d", DEFAULT>>
NoBox == <<None, None>>
AllBoxes ==
    {GenericBox, C2DBox}
        \cup {<<"method", m>> : m \in MethodNames}
        \cup {<<"input", i>> : i \in InputNames}

NoEvent == [id |-> 0, cat |-> "none", name |-> None]

\* What a send operation is given or hands on: a raw payload or a Message, told
\* apart by obj (the object's identity: the caller's or one the client built).
NoMessage == [isMessage |-> FALSE, data |-> None, obj |-> None, output_name |-> None]
RawPayload == [isMessage |-> FALSE, data |-> "payload", obj |-> "arg", output_name |-> None]
MessageArg == [isMessage |-> TRUE, data |-> "payload", obj |-> "arg", output_name |-> None]
MethodResponseArg == [isMessage |-> FALSE, data |-> "response", obj |-> "arg", output_name |-> None]
SendArgs == {RawPayload, MessageArg}
NoArg == [key |-> None, message |-> NoMessage, output_name |-> None]
NoSent == [op |-> None, feature |-> None, message |-> NoMessage]

VARIABLES
    kind,             \* which client class was constructed
    feature_enabled,  \* pipeline.feature_enabled
    inbox,            \* InboxManager: inbox id -> queued events
    pc,               \* task -> the await the coroutine is at
    op,               \* task -> the client operation it runs
    arg,              \* task -> the operation's arguments
    call,             \* task -> state of the pipeline call run by the executor
    cb,               \* task -> state of the AwaitableCallback handed to it
    sent,             \* task -> what the pipeline call was given
    box,              \* task -> the inbox the coroutine looked up
    result,           \* task -> what the coroutine returned
    nextId,           \* number of inbound events delivered so far, plus one
    routed,           \* history: every delivered event and where it was put
    returned,         \* history: receive target -> events returned, in order
    conn,             \* last connection state the pipeline notified
    stale             \* history: ids of the requests queued at a disconnect

vars == <<kind, feature_enabled, inbox, pc, op, arg, call, cb, sent, box,
          result, nextId, routed, returned, conn, stale>>

\* ------------------------------------------------------------------ Init
\* The state after IoTHubDeviceClient(pipeline) or IoTHubModuleClient(pipeline):
\* a fresh InboxManager, no coroutine started, no feature enabled.
InboxManager == [b \in {GenericBox, C2DBox} |-> <<>>]

Init ==
    /\ kind \in ClientKinds
    /\ feature_enabled = [f \in Features |-> FALSE]
    /\ inbox = InboxManager
    /\ pc = [t \in Tasks |-> "idle"]
    /\ op = [t \in Tasks |-> None]
    /\ arg = [t \in Tasks |-> NoArg]
    /\ call = [t \in Tasks |-> "none"]
    /\ cb = [t \in Tasks |-> "none"]
    /\ sent = [t \in Tasks |-> NoSent]
    /\ box = [t \in Tasks |-> NoBox]
    /\ result = [t \in Tasks |-> NoEvent]
    /\ nextId = 1
    /\ routed = <<>>
    /\ returned = [b \in AllBoxes |-> <<>>]
    /\ conn = None
    /\ stale = {}

\* Handler slots of the pipeline that the constructors assign.
Registered(k) ==
    {"on_connected", "on_disconnected", "on_method_request_received"}
        \cup (IF k = "device" THEN {"on_c2d_message_received"} ELSE {})
        \cup (IF k = "module" THEN {"on_input_message_received"} ELSE {})

\* Coroutine t is called: the coroutines are numbered in the order of their
\* calls, so t is the first one that has not been called yet.
Called(t) ==
    /\ pc[t] = "idle"
    /\ \A u \in Tasks : u < t => pc[u] # "idle"

\* ------------------------------------------------- async_adapter (bridge)
\* emulate_async(fn)(args, callback=...): the call runs in the executor; the
\* awaiting coroutine resumes when the call has returned or raised.
emulate_async(t, o, s) ==
    /\ call' = [call EXCEPT ![t] = "running"]
    /\ cb' = [cb EXCEPT ![t] = "pending"]
    /\ sent' = [sent EXCEPT ![t] = s]
    /\ op' = [op EXCEPT ![t] = o]

\* AwaitableCallback.completion(): suspended while the callback has not been
\* invoked; returns on success and raises the failure it was invoked with.
completion(t) ==
    CASE cb[t] = "ok" -> "done"
      [] cb[t] = "fail" -> "failed"
      [] OTHER -> "suspended"

\* `await x_async(..., callback=callback)` resumes: the exception of a call
\* that raised propagates, otherwise the coroutine goes on to `next`.
AwaitCall(t, o, next) ==
    /\ op[t] = o
    /\ pc[t] = "await_call"
    /\ call[t] \in {"returned", "raised"}
    /\ pc' = [pc EXCEPT ![t] = IF call[t] = "raised" THEN "failed" ELSE next]
    /\ UNCHANGED <<kind, feature_enabled, inbox, op, arg, call, cb, sent, box,
                   result, nextId, routed, returned, conn, stale>>

\* `await callback.completion()` resumes.
AwaitCompletion(t, o) ==
    /\ op[t] = o
    /\ pc[t] = "await_completion"
    /\ completion(t) # "suspended"
    /\ pc' = [pc EXCEPT ![t] = completion(t)]
    /\ UNCHANGED <<kind, feature_enabled, inbox, op, arg, call, cb, sent, box,
                   result, nextId, routed, returned, conn, stale>>

\* The coroutine is called: up to its first await it builds the callback and
\* hands the pipeline call to the executor.
Begin(t, o, a, s) ==
    /\ Called(t)
    /\ emulate_async(t, o, s)
    /\ arg' = [arg EXCEPT ![t] = a]
    /\ pc' = [pc EXCEPT ![t] = "await_call"]
    /\ UNCHANGED <<kind, feature_enabled, inbox, box, result, nextId, routed,
                   returned, conn, stale>>

\* Message(payload): a new envelope around the payload.
Message(payload) ==
    [isMessage |-> TRUE, data |-> payload.data, obj |-> "new", output_name |-> None]

\* ------------------------------------------------------ outbound operations
\* Variants with a slip: connect returning without awaiting the completion,
\* send_method_response swallowing the failure of the completion.
connect_without_completion(t) ==
    \/ Begin(t, "connect", NoArg, [NoSent EXCEPT !.op = "connect"])
    \/ AwaitCall(t, "connect", "done")

send_method_response_swallow(t, method_response) ==
    \/ Begin(t, "send_method_response", [NoArg EXCEPT !.message = method_response],
             [NoSent EXCEPT !.op = "send_method_response", !.message = method_response])
    \/ AwaitCall(t, "send_method_response", "await_completion")
    \/ /\ op[t] = "send_method_response"
       /\ pc[t] = "await_completion"
       /\ completion(t) # "suspended"
       /\ pc' = [pc EXCEPT ![t] = "done"]
       /\ UNCHANGED <<kind, feature_enabled, inbox, op, arg, call, cb, sent, box,
                      result, nextId, routed, returned, conn, stale>>

\* connect going on to the completion whatever the call did.
connect_ignoring_raise(t) ==
    \/ Begin(t, "connect", NoArg, [NoSent EXCEPT !.op = "connect"])
    \/ /\ op[t] = "connect"
       /\ pc[t] = "await_call"
       /\ call[t] \in {"returned", "raised"}
       /\ pc' = [pc EXCEPT ![t] = "await_completion"]
       /\ UNCHANGED <<kind, feature_enabled, inbox, op, arg, call, cb, sent, box,
                      result, nextId, routed, returned, conn, stale>>
    \/ AwaitCompletion(t, "connect")

connect(t) ==
    \/ Begin(t, "connect", NoArg, [NoSent EXCEPT !.op = "connect"])
    \/ AwaitCall(t, "connect", "await_completion")
    \/ AwaitCompletion(t, "connect")

disconnect(t) ==
    \/ Begin(t, "disconnect", NoArg, [NoSent EXCEPT !.op = "disconnect"])
    \/ AwaitCall(t, "disconnect", "await_completion")
    \/ AwaitCompletion(t, "disconnect")

\* send_to_output without the output name set on the envelope.
send_to_output_unstamped(t, message, output_name) ==
    \/ /\ kind = "module"
       /\ LET m == IF ~message.isMessage THEN Message(message) ELSE message
          IN  Begin(t, "send_to_output",
                    [NoArg EXCEPT !.message = message, !.output_name = output_name],
                    [NoSent EXCEPT !.op = "send_output_event", !.message = m])
    \/ AwaitCall(t, "send_to_output", "await_completion")
    \/ AwaitCompletion(t, "send_to_output")

send_d2c_message(t, message) ==
    \/ LET m == IF ~message.isMessage THEN Message(message) ELSE message
       IN  Begin(t, "send_d2c_message", [NoArg EXCEPT !.message = message],
                 [NoSent EXCEPT !.op = "send_d2c_message", !.message = m])
    \/ AwaitCall(t, "send_d2c_message", "await_completion")
    \/ AwaitCompletion(t, "send_d2c_message")

send_method_response(t, method_response) ==
    \/ Begin(t, "send_method_response", [NoArg EXCEPT !.message = method_response],
             [NoSent EXCEPT !.op = "send_method_response", !.message = method_response])
    \/ AwaitCall(t, "send_method_response", "await_completion")
    \/ AwaitCompletion(t, "send_method_response")

send_to_output(t, message, output_name) ==
    \/ /\ kind = "module"
       /\ LET m0 == IF ~message.isMessage THEN Message(message) ELSE message
              m == [m0 EXCEPT !.output_name = output_name]
          IN  Begin(t, "send_to_output",
                    [NoArg EXCEPT !.message = message, !.output_name = output_name],
                    [NoSent EXCEPT !.op = "send_output_event", !.message = m])
    \/ AwaitCall(t, "send_to_output", "await_completion")
    \/ AwaitCompletion(t, "send_to_output")

\* ------------------------------------------------- AsyncClientInbox (queue)
\* put: append at the tail.  get: suspended while the queue is empty, then
\* removes and returns the oldest item.  clear: drops the queued items.
put(q, item) == Append(q, item)
get_ready(q) == q # <<>>
get_item(q) == Head(q)
get_rest(q) == Tail(q)
clear(q) == <<>>

\* ------------------------------------------------------------ InboxManager
\* The inbox of a category and key, created at its first lookup.
inbox_for(inb, b) ==
    IF b \in DOMAIN inb THEN inb ELSE [x \in DOMAIN inb \cup {b} |-> IF x = b THEN <<>> ELSE inb[x]]

get_method_request_inbox(method_name) ==
    IF method_name = None THEN GenericBox ELSE <<"method", method_name>>

get_c2d_message_inbox == C2DBox

get_input_message_inbox(input_name) == <<"input", input_name>>

\* A method request goes to the inbox of its name when that inbox exists and
\* to the generic inbox otherwise.
route_method_request(inb, request) ==
    IF <<"method", request.name>> \in DOMAIN inb
    THEN <<"method", request.name>>
    ELSE GenericBox

route_c2d_message(inb, message) == C2DBox

route_input_message(inb, message) == <<"input", message.name>>

clear_all_method_requests(inb) ==
    [b \in DOMAIN inb |-> IF b[1] = "method" THEN clear(inb[b]) ELSE inb[b]]

\* -------------------------------------------------- connection state change
\* Variants of the handlers with a slip in them, used to show that the
\* properties below depend on the handlers.
_on_disconnected_clear_all(inb) == [b \in DOMAIN inb |-> clear(inb[b])]

_on_disconnected_wake(inb) ==
    [b \in DOMAIN inb |-> IF b[1] = "method" THEN <<NoEvent>> ELSE inb[b]]

_on_state_change_wrong_state(new_state, inb) ==
    IF new_state = "connected" THEN clear_all_method_requests(inb) ELSE inb

_on_state_change_any_state(new_state, inb) == clear_all_method_requests(inb)

_on_disconnected_keeps_requests(inb) == inb

_on_disconnected(inb) == clear_all_method_requests(inb)

_on_state_change(new_state, inb) ==
    IF new_state = "disconnected" THEN _on_disconnected(inb) ELSE inb

\* ------------------------------------------------------- receive operations
\* _enable_feature(feature_name) up to its await: the pipeline's
\* enable_feature is handed to the executor with a fresh callback.
_enable_feature(t, o, feature_name) ==
    emulate_async(t, o, [NoSent EXCEPT !.op = "enable_feature", !.feature = feature_name])

\* `await enable_feature_async(feature_name, callback=callback)` resumes and
\* _enable_feature returns to the receive operation (or the exception of a
\* call that raised propagates through it).
enable_feature_resumes(t) ==
    /\ pc[t] = "await_enable"
    /\ call[t] \in {"returned", "raised"}

\* The receive operation looks its inbox up and starts to wait on get().
LookupAndWait(t, b) ==
    /\ inbox' = inbox_for(inbox, b)
    /\ box' = [box EXCEPT ![t] = b]
    /\ pc' = [pc EXCEPT ![t] = "await_get"]

\* A receive operation is called: it enables its feature first when the
\* pipeline's flag is false, and goes straight to its inbox otherwise.
ReceiveBegin(t, o, feature_name, a, b) ==
    /\ Called(t)
    /\ arg' = [arg EXCEPT ![t] = a]
    /\ IF ~feature_enabled[feature_name]
       THEN /\ _enable_feature(t, o, feature_name)
            /\ pc' = [pc EXCEPT ![t] = "await_enable"]
            /\ UNCHANGED <<inbox, box>>
       ELSE /\ op' = [op EXCEPT ![t] = o]
            /\ LookupAndWait(t, b)
            /\ UNCHANGED <<call, cb, sent>>
    /\ UNCHANGED <<kind, feature_enabled, result, nextId, routed, returned,
                   conn, stale>>

\* _enable_feature has returned: the operation goes on to its inbox.
ReceiveEnabled(t, o, b) ==
    /\ op[t] = o
    /\ enable_feature_resumes(t)
    /\ IF call[t] = "raised"
       THEN /\ pc' = [pc EXCEPT ![t] = "failed"]
            /\ UNCHANGED <<inbox, box>>
       ELSE LookupAndWait(t, b)
    /\ UNCHANGED <<kind, feature_enabled, op, arg, call, cb, sent, result,
                   nextId, routed, returned, conn, stale>>

\* `await inbox.get()` resumes with the oldest queued item, which the
\* operation returns.
ReceiveGet(t, o, target) ==
    /\ op[t] = o
    /\ pc[t] = "await_get"
    /\ get_ready(inbox[box[t]])
    /\ result' = [result EXCEPT ![t] = get_item(inbox[box[t]])]
    /\ inbox' = [inbox EXCEPT ![box[t]] = get_rest(@)]
    /\ returned' = [returned EXCEPT ![target] =
                        Append(@, get_item(inbox[box[t]]))]
    /\ pc' = [pc EXCEPT ![t] = "done"]
    /\ UNCHANGED <<kind, feature_enabled, op, arg, call, cb, sent, box,
                   nextId, routed, conn, stale>>

\* Variants with a slip in the inbox lookup: the method name not passed on,
\* the inbox of another category, a fixed input name.
receive_method_request_generic_only(t, method_name) ==
    \/ ReceiveBegin(t, "receive_method_request", METHODS,
                    [NoArg EXCEPT !.key = method_name],
                    get_method_request_inbox(None))
    \/ /\ arg[t].key = method_name
       /\ ReceiveEnabled(t, "receive_method_request", get_method_request_inbox(None))
    \/ /\ arg[t].key = method_name
       /\ ReceiveGet(t, "receive_method_request",
                     IF method_name = None THEN GenericBox ELSE <<"method", method_name>>)

receive_c2d_message_wrong_inbox(t) ==
    \/ /\ kind = "device"
       /\ ReceiveBegin(t, "receive_c2d_message", C2D_MSG, NoArg,
                       get_method_request_inbox(None))
    \/ ReceiveEnabled(t, "receive_c2d_message", get_method_request_inbox(None))
    \/ ReceiveGet(t, "receive_c2d_message", C2DBox)

receive_input_message_fixed_input(t, input_name) ==
    \/ /\ kind = "module"
       /\ ReceiveBegin(t, "receive_input_message", INPUT_MSG,
                       [NoArg EXCEPT !.key = input_name],
                       get_input_message_inbox("A"))
    \/ /\ arg[t].key = input_name
       /\ ReceiveEnabled(t, "receive_input_message", get_input_message_inbox("A"))
    \/ /\ arg[t].key = input_name
       /\ ReceiveGet(t, "receive_input_message", <<"input", input_name>>)

\* A variant that looks the input name up among the method-request inboxes.
receive_input_message_method_inbox(t, input_name) ==
    \/ /\ kind = "module"
       /\ ReceiveBegin(t, "receive_input_message", INPUT_MSG,
                       [NoArg EXCEPT !.key = input_name],
                       get_method_request_inbox(input_name))
    \/ /\ arg[t].key = input_name
       /\ ReceiveEnabled(t, "receive_input_message", get_method_request_inbox(input_name))
    \/ /\ arg[t].key = input_name
       /\ ReceiveGet(t, "receive_input_message", <<"input", input_name>>)

\* A variant copied from the device client: it waits on the C2D inbox.
receive_input_message_c2d_inbox(t, input_name) ==
    \/ /\ kind = "module"
       /\ ReceiveBegin(t, "receive_input_message", INPUT_MSG,
                       [NoArg EXCEPT !.key = input_name],
                       get_c2d_message_inbox)
    \/ /\ arg[t].key = input_name
       /\ ReceiveEnabled(t, "receive_input_message", get_c2d_message_inbox)
    \/ /\ arg[t].key = input_name
       /\ ReceiveGet(t, "receive_input_message", <<"input", input_name>>)

receive_method_request(t, method_name) ==
    \/ ReceiveBegin(t, "receive_method_request", METHODS,
                    [NoArg EXCEPT !.key = method_name],
                    get_method_request_inbox(method_name))
    \/ /\ arg[t].key = method_name
       /\ ReceiveEnabled(t, "receive_method_request",
                         get_method_request_inbox(method_name))
    \/ /\ arg[t].key = method_name
       /\ ReceiveGet(t, "receive_method_request",
                     IF method_name = None THEN GenericBox ELSE <<"method", method_name>>)

\* A variant whose get() does not wait: on an empty inbox it returns at once,
\* with no item.
receive_c2d_message_nowait(t) ==
    \/ /\ kind = "device"
       /\ ReceiveBegin(t, "receive_c2d_message", C2D_MSG, NoArg, get_c2d_message_inbox)
    \/ ReceiveEnabled(t, "receive_c2d_message", get_c2d_message_inbox)
    \/ ReceiveGet(t, "receive_c2d_message", C2DBox)
    \/ /\ op[t] = "receive_c2d_message"
       /\ pc[t] = "await_get"
       /\ ~get_ready(inbox[box[t]])
       /\ result' = [result EXCEPT ![t] = NoEvent]
       /\ pc' = [pc EXCEPT ![t] = "done"]
       /\ UNCHANGED <<kind, feature_enabled, inbox, op, arg, call, cb, sent, box,
                      nextId, routed, returned, conn, stale>>

\* A variant that tests and enables the feature of another category.
receive_c2d_message_wrong_feature(t) ==
    \/ /\ kind = "device"
       /\ ReceiveBegin(t, "receive_c2d_message", METHODS, NoArg, get_c2d_message_inbox)
    \/ ReceiveEnabled(t, "receive_c2d_message", get_c2d_message_inbox)
    \/ ReceiveGet(t, "receive_c2d_message", C2DBox)

receive_c2d_message(t) ==
    \/ /\ kind = "device"
       /\ ReceiveBegin(t, "receive_c2d_message", C2D_MSG, NoArg, get_c2d_message_inbox)
    \/ ReceiveEnabled(t, "receive_c2d_message", get_c2d_message_inbox)
    \/ ReceiveGet(t, "receive_c2d_message", C2DBox)

receive_input_message(t, input_name) ==
    \/ /\ kind = "module"
       /\ ReceiveBegin(t, "receive_input_message", INPUT_MSG,
                       [NoArg EXCEPT !.key = input_name],
                       get_input_message_inbox(input_name))
    \/ /\ arg[t].key = input_name
       /\ ReceiveEnabled(t, "receive_input_message", get_input_message_inbox(input_name))
    \/ /\ arg[t].key = input_name
       /\ ReceiveGet(t, "receive_input_message", <<"input", input_name>>)

\* ------------------------------------------------ the pipeline (environment)
\* The call run by the executor returns.
pipeline_returns(t) ==
    /\ call[t] = "running"
    /\ call' = [call EXCEPT ![t] = "returned"]
    /\ UNCHANGED <<kind, feature_enabled, inbox, pc, op, arg, cb, sent, box,
                   result, nextId, routed, returned, conn, stale>>

\* The call raises before it has invoked any callback.
pipeline_raises(t) ==
    /\ call[t] = "running"
    /\ cb[t] = "pending"
    /\ call' = [call EXCEPT ![t] = "raised"]
    /\ UNCHANGED <<kind, feature_enabled, inbox, pc, op, arg, cb, sent, box,
                   result, nextId, routed, returned, conn, stale>>

\* The pipeline invokes the callback of a call, once, with its outcome; a
\* feature is enabled when its enable_feature call has succeeded.
pipeline_invokes_callback(t, outcome) ==
    /\ call[t] \in {"running", "returned"}
    /\ cb[t] = "pending"
    /\ cb' = [cb EXCEPT ![t] = outcome]
    /\ feature_enabled' =
           IF sent[t].op = "enable_feature" /\ outcome = "ok"
           THEN [feature_enabled EXCEPT ![sent[t].feature] = TRUE]
           ELSE feature_enabled
    /\ UNCHANGED <<kind, inbox, pc, op, arg, call, sent, box,
                   result, nextId, routed, returned, conn, stale>>

\* The coroutines suspended in get(), and those that have returned.
Suspended == {t \in Tasks : pc[t] = "await_get"}
Finished == {t \in Tasks : pc[t] = "done"}

\* A handler of the InboxManager is invoked with an inbound event, which is
\* put into the inbox the manager routes it to.
Deliver(ev, b) ==
    /\ nextId <= MaxEvents
    /\ inbox' = [inbox_for(inbox, b) EXCEPT ![b] = put(@, ev)]
    /\ routed' = Append(routed, [ev |-> ev, box |-> b, waiting |-> Suspended,
                                  finished |-> Finished])
    /\ nextId' = nextId + 1
    /\ UNCHANGED <<kind, feature_enabled, pc, op, arg, call, cb, sent, box,
                   result, returned, conn, stale>>

on_method_request_received(method_name) ==
    /\ "on_method_request_received" \in Registered(kind)
    /\ LET request == [id |-> nextId, cat |-> "method", name |-> method_name]
       IN  Deliver(request, route_method_request(inbox, request))

on_c2d_message_received ==
    /\ "on_c2d_message_received" \in Registered(kind)
    /\ LET message == [id |-> nextId, cat |-> "c2d", name |-> None]
       IN  Deliver(message, route_c2d_message(inbox, message))

on_input_message_received(input_name) ==
    /\ "on_input_message_received" \in Registered(kind)
    /\ LET message == [id |-> nextId, cat |-> "input", name |-> input_name]
       IN  Deliver(message, route_input_message(inbox, message))

\* The ids of the events queued in a set of inboxes.
QueuedIds(bs) == {inbox[b][i].id : <<b, i>> \in {<<b, i>> \in bs \X (1..MaxEvents) : i <= Len(inbox[b])}}

\* The pipeline notifies a connection state through on_connected or
\* on_disconnected, both of which are _on_state_change.
pipeline_state_change(new_state) ==
    /\ inbox' = _on_state_change(new_state, inbox)
    /\ conn' = new_state
    /\ stale' = IF new_state = "disconnected"
               THEN stale \cup QueuedIds({b \in DOMAIN inbox : b[1] = "method"})
               ELSE stale
    /\ UNCHANGED <<kind, feature_enabled, pc, op, arg, call, cb, sent, box,
                   result, nextId, routed, returned>>

\* ------------------------------------------------------------------- Next
Next ==
    \/ \E t \in Tasks : connect(t)
    \/ \E t \in Tasks : disconnect(t)
    \/ \E t \in Tasks, m \in SendArgs : send_d2c_message(t, m)
    \/ \E t \in Tasks : send_method_response(t, MethodResponseArg)
    \/ \E t \in Tasks, m \in SendArgs, o \in OutputNames : send_to_output(t, m, o)
    \/ \E t \in Tasks, m \in MethodNames \cup {None} : receive_method_request(t, m)
    \/ \E t \in Tasks : receive_c2d_message(t)
    \/ \E t \in Tasks, i \in InputNames : receive_input_message(t, i)
    \/ \E m \in MethodNames : on_method_request_received(m)
    \/ on_c2d_message_received
    \/ \E i \in InputNames : on_input_message_received(i)
    \/ \E s \in States : pipeline_state_change(s)
    \/ \E t \in Tasks : pipeline_returns(t)
    \/ \E t \in Tasks : pipeline_raises(t)
    \/ \E t \in Tasks, o \in Outcomes : pipeline_invokes_callback(t, o)

\* The receive side alone: the receive operations, the inbound events and the
\* pipeline.
NextReceive ==
    \/ \E t \in Tasks, m \in MethodNames \cup {None} : receive_method_request(t, m)
    \/ \E t \in Tasks : receive_c2d_message(t)
    \/ \E t \in Tasks, i \in InputNames : receive_input_message(t, i)
    \/ \E m \in MethodNames : on_method_request_received(m)
    \/ on_c2d_message_received
    \/ \E i \in InputNames : on_input_message_received(i)
    \/ \E s \in States : pipeline_state_change(s)
    \/ \E t \in Tasks : pipeline_returns(t)
    \/ \E t \in Tasks : pipeline_raises(t)
    \/ \E t \in Tasks, o \in Outcomes : pipeline_invokes_callback(t, o)

\* The send side alone: the outbound operations and the pipeline.
NextSend ==
    \/ \E t \in Tasks : connect(t)
    \/ \E t \in Tasks : disconnect(t)
    \/ \E t \in Tasks, m \in SendArgs : send_d2c_message(t, m)
    \/ \E t \in Tasks : send_method_response(t, MethodResponseArg)
    \/ \E t \in Tasks, m \in SendArgs, o \in OutputNames : send_to_output(t, m, o)
    \/ \E t \in Tasks : pipeline_returns(t)
    \/ \E t \in Tasks : pipeline_raises(t)
    \/ \E t \in Tasks, o \in Outcomes : pipeline_invokes_callback(t, o)

Spec == Init /\ [][Next]_vars
SpecReceive == Init /\ [][NextReceive]_vars
SpecSend == Init /\ [][NextSend]_vars

\* The steps of the coroutine of task t once it has been called.
Resume(t) ==
    /\ pc[t] # "idle"
    /\ \/ connect(t)
       \/ disconnect(t)
       \/ \E m \in SendArgs : send_d2c_message(t, m)
       \/ send_method_response(t, MethodResponseArg)
       \/ \E m \in SendArgs, o \in OutputNames : send_to_output(t, m, o)
       \/ \E m \in MethodNames \cup {None} : receive_method_request(t, m)
       \/ receive_c2d_message(t)
       \/ \E i \in InputNames : receive_input_message(t, i)

\* The event loop runs every coroutine that is ready to resume.
Scheduling == \A t \in Tasks : WF_vars(Resume(t))

\* The calls that go to the pipeline: the outbound operations and, through
\* receive_c2d_message, enable_feature.
NextCall ==
    \/ \E t \in Tasks : connect(t)
    \/ \E t \in Tasks : disconnect(t)
    \/ \E t \in Tasks, m \in SendArgs : send_d2c_message(t, m)
    \/ \E t \in Tasks : send_method_response(t, MethodResponseArg)
    \/ \E t \in Tasks, m \in SendArgs, o \in OutputNames : send_to_output(t, m, o)
    \/ \E t \in Tasks : receive_c2d_message(t)
    \/ on_c2d_message_received
    \/ \E t \in Tasks : pipeline_returns(t)
    \/ \E t \in Tasks : pipeline_raises(t)
    \/ \E t \in Tasks, o \in Outcomes : pipeline_invokes_callback(t, o)

SpecCallFair == Init /\ [][NextCall]_vars /\ Scheduling

\* The input messages of a module: receive_input_message, the handler of the
\* inbound input messages and the pipeline.
NextInput ==
    \/ \E t \in Tasks, i \in InputNames : receive_input_message(t, i)
    \/ \E i \in InputNames : on_input_message_received(i)
    \/ \E s \in States : pipeline_state_change(s)
    \/ \E t \in Tasks : pipeline_returns(t)
    \/ \E t \in Tasks : pipeline_raises(t)
    \/ \E t \in Tasks, o \in Outcomes : pipeline_invokes_callback(t, o)

SpecInputFair == Init /\ [][NextInput]_vars /\ Scheduling

\* The receive side together with connect and disconnect calls.
NextReceiveConn ==
    \/ NextReceive
    \/ \E t \in Tasks : connect(t)
    \/ \E t \in Tasks : disconnect(t)

SpecReceiveConn == Init /\ [][NextReceiveConn]_vars

\* ============================================================== properties
OutboundOps ==
    {"connect", "disconnect", "send_d2c_message", "send_method_response",
     "send_to_output"}
ReceiveOps == {"receive_method_request", "receive_c2d_message", "receive_input_message"}

\* The inbox a receive call asks for, from its operation and argument.
TargetOf(t) ==
    CASE op[t] = "receive_method_request" ->
             IF arg[t].key = None THEN GenericBox ELSE <<"method", arg[t].key>>
      [] op[t] = "receive_c2d_message" -> C2DBox
      [] op[t] = "receive_input_message" -> <<"input", arg[t].key>>
      [] OTHER -> NoBox

\* The receive call enabled its feature: it found the flag false.
Enabling(t) == op[t] \in ReceiveOps /\ sent[t].op = "enable_feature"

\* The events put into inbox b, in arrival order.
EventsTo(b) ==
    LET To(r) == r.box = b
        sel == SelectSeq(routed, To)
    IN  [i \in 1..Len(sel) |-> sel[i].ev]

IsPrefix(a, b) == Len(a) <= Len(b) /\ \A i \in 1..Len(a) : a[i] = b[i]
Range(q) == {q[i] : i \in 1..Len(q)}
Queued(b) == IF b \in DOMAIN inbox THEN inbox[b] ELSE <<>>

\* A "disconnected" notification is handled in this step.
DisconnectedStep == conn' = "disconnected" /\ (conn # "disconnected" \/ stale' # stale)

\* C1: a receive operation called while its feature flag is false begins to
\* wait on the inbox get() only after the enable-feature callback has fired
\* with success.
C1_EnableCompletesBeforeWait ==
    \A t \in Tasks :
        (Enabling(t) /\ pc[t] \in {"await_get", "done"}) => cb[t] = "ok"

\* C2: when the enable-feature call of a receive operation fails, the receive
\* call fails and never reaches the wait on the inbox, so it returns no item.
C2_EnableFailureAbortsReceive ==
    \A t \in Tasks :
        (Enabling(t) /\ (cb[t] = "fail" \/ call[t] = "raised"))
            => (pc[t] \notin {"await_get", "done"} /\ result[t] = NoEvent)

\* C3: after a "disconnected" notification no method request that was queued
\* at the notification is left in any method-request inbox, and none is ever
\* returned by a receive call.
C3_DisconnectPurgesMethodRequests ==
    /\ \A b \in DOMAIN inbox :
           b[1] = "method" => \A e \in Range(inbox[b]) : e.id \notin stale
    /\ \A b \in AllBoxes : \A e \in Range(returned[b]) : e.id \notin stale
    /\ \A t \in Tasks : pc[t] = "done" => result[t].id \notin stale

\* Witness: a request was queued in an inbox and discarded by a disconnect, and
\* a receive call on that inbox, suspended only after the next request had
\* arrived, returned that next request.
C3_Witness ==
    \E t \in Tasks, i \in 1..Len(routed) :
        /\ op[t] = "receive_method_request"
        /\ pc[t] = "done"
        /\ result[t] = routed[i].ev
        /\ t \notin routed[i].waiting
        /\ \E k \in stale : k < i /\ routed[k].box = TargetOf(t)

\* C4: a "disconnected" notification leaves the C2D inbox and every input
\* inbox as they were, and every C2D or input message routed is, in arrival
\* order, first the ones returned and then the ones still queued.
C4_DisconnectKeepsMessages ==
    /\ [][DisconnectedStep =>
            \A b \in DOMAIN inbox :
                b[1] # "method" => (b \in DOMAIN inbox' /\ inbox'[b] = inbox[b])]_vars
    /\ [](\A b \in AllBoxes :
            b[1] # "method" => returned[b] \o Queued(b) = EventsTo(b))

C4_Witness ==
    /\ conn = "disconnected"
    /\ \E b \in DOMAIN inbox :
           /\ b[1] # "method"
           /\ \E e \in Range(inbox[b]) : \E i \in stale : e.id < i

\* C5: an outbound operation returns to its caller only after the pipeline
\* has invoked the callback of its call.
C5_ReturnsAfterCallback ==
    \A t \in Tasks :
        (op[t] \in OutboundOps /\ pc[t] = "done") => cb[t] \in Outcomes

C5_Witness ==
    \E t \in Tasks, u \in Tasks :
        /\ op[t] \in OutboundOps /\ pc[t] = "done"
        /\ op[u] \in OutboundOps /\ pc[u] = "await_completion" /\ cb[u] = "pending"

\* C6: an outbound operation whose callback reported a failure never returns
\* normally: the failure is raised to its caller.
C6_FailureSurfaces ==
    \A t \in Tasks :
        (op[t] \in OutboundOps /\ cb[t] = "fail") => pc[t] # "done"

C6_Witness ==
    \E t \in Tasks :
        op[t] \in OutboundOps /\ cb[t] = "fail" /\ pc[t] = "failed"

\* C7: the events returned by the receive calls on one inbox are the events
\* routed to it, in arrival order (for method requests, as long as no request
\* was discarded by a disconnect).
C7_FifoDelivery ==
    \A b \in AllBoxes :
        (b[1] # "method" \/ stale = {}) => IsPrefix(returned[b], EventsTo(b))

C7_Witness ==
    \E b \in AllBoxes :
        /\ Len(returned[b]) >= 2
        /\ returned[b] = EventsTo(b)
        /\ \E i \in 1..Len(routed) : routed[i].box = b /\ routed[i].finished # {}

\* C8: two receive calls on the same inbox never return the same event, each
\* returns an event that was routed to that inbox, and no event is lost: the
\* events routed to an inbox are the ones returned and the ones still queued.
C8_DistinctDelivery ==
    /\ \A t \in Tasks, u \in Tasks :
           (t # u /\ pc[t] = "done" /\ pc[u] = "done" /\ TargetOf(t) = TargetOf(u))
               => result[t] # result[u]
    /\ \A t \in Tasks :
           (op[t] \in ReceiveOps /\ pc[t] = "done")
               => result[t] \in Range(EventsTo(TargetOf(t)))
    /\ \A b \in AllBoxes :
           (b[1] # "method" \/ stale = {})
               => Len(EventsTo(b)) =
                      Len(Queued(b))
                          + Cardinality({t \in Tasks : pc[t] = "done" /\ TargetOf(t) = b})

C8_Witness ==
    \E t \in Tasks, u \in Tasks, i \in 1..Len(routed), j \in 1..Len(routed) :
        /\ t # u /\ i < j
        /\ pc[t] = "done" /\ pc[u] = "done"
        /\ TargetOf(t) = TargetOf(u)
        /\ routed[i].box = TargetOf(t) /\ routed[j].box = TargetOf(t)
        /\ {t, u} \subseteq routed[i].waiting
        /\ {result[t], result[u]} = {routed[i].ev, routed[j].ev}

\* C9: a "disconnected" notification neither resumes nor cancels a receive
\* call, and a receive_method_request call returns only a request that was
\* routed to its inbox and was not discarded by a disconnect.
C9_ClearKeepsWaiters ==
    /\ [][DisconnectedStep => (pc' = pc /\ result' = result /\ box' = box)]_vars
    /\ [](\A t \in Tasks :
            (op[t] = "receive_method_request" /\ pc[t] = "done")
                => /\ result[t] \in Range(EventsTo(TargetOf(t)))
                   /\ result[t].id \notin stale)

\* Witness: a call was suspended on an inbox from which a disconnect had
\* discarded a request when the next request arrived, and returned that one.
C9_Witness ==
    \E t \in Tasks, i \in 1..Len(routed) :
        /\ op[t] = "receive_method_request" /\ pc[t] = "done"
        /\ result[t] = routed[i].ev
        /\ t \in routed[i].waiting
        /\ \E k \in stale : k < i /\ routed[k].box = TargetOf(t)

\* The coroutines that, when routed entry r was delivered, were suspended in
\* get() for inbox b, and those that had been (suspended or returned).
WaitersAt(r, b) == {t \in r.waiting : TargetOf(t) = b}
ReachedAt(r, b) == {t \in r.waiting \cup r.finished : TargetOf(t) = b}

Reached == {t \in Tasks : op[t] \in ReceiveOps /\ pc[t] \in {"await_get", "done"}}

\* C11: every receive call with the same category and key resolves to the
\* same inbox, calls with different keys never share one, and a receive call
\* returns only an event that was routed to the inbox of its own key: a
\* message routed to input A is never returned by receive_input_message(B).
C11_InboxIdentity ==
    /\ \A t \in Reached : box[t] = TargetOf(t) /\ box[t] \in DOMAIN inbox
    /\ \A t \in Reached, u \in Reached :
           box[t] = box[u] <=> (op[t] = op[u] /\ arg[t].key = arg[u].key)
    /\ \A i \in 1..Len(routed) :
           routed[i].ev.cat = "input" => routed[i].box = <<"input", routed[i].ev.name>>
    /\ \A t \in Tasks :
           (op[t] = "receive_input_message" /\ pc[t] = "done")
               => (result[t].cat = "input" /\ result[t].name = arg[t].key)
    /\ \A b \in AllBoxes : Range(returned[b]) \subseteq Range(EventsTo(b))

\* Witness: two receive_input_message calls on one input were both called
\* before its inbox existed and share it, one has returned a message of that
\* input, and a message of the other input is still queued.
C11_Witness ==
    \E t \in Reached, u \in Reached :
        /\ t # u
        /\ op[t] = "receive_input_message" /\ op[u] = "receive_input_message"
        /\ arg[t].key = arg[u].key
        /\ Enabling(t) /\ Enabling(u)
        /\ box[t] = box[u]
        /\ pc[t] = "done" /\ pc[u] = "await_get"
        /\ \E b \in DOMAIN inbox : b[1] = "input" /\ b # box[t] /\ inbox[b] # <<>>

\* C12: over any interleaving of receive calls on one category, the pipeline's
\* enable_feature is called for that feature at most once.
C12_EnableAtMostOnce ==
    \A f \in Features :
        Cardinality({t \in Tasks : sent[t].op = "enable_feature" /\ sent[t].feature = f}) <= 1

\* C13: when the pipeline operation of a call (connect, disconnect,
\* send_d2c_message, send_method_response, send_to_output, enable_feature)
\* raises before it has invoked any callback, the client call goes on to no
\* wait for the callback or for an item, and ends by raising.
C13_SyncRaiseTerminates ==
    /\ [](\A t \in Tasks :
            call[t] = "raised"
                => (cb[t] = "pending" /\ pc[t] \in {"await_call", "await_enable", "failed"}))
    /\ \A t \in Tasks : (call[t] = "raised") ~> (pc[t] = "failed")

C13_Witness ==
    \E t \in Tasks, u \in Tasks :
        /\ op[t] \in OutboundOps /\ call[t] = "raised" /\ pc[t] = "failed"
        /\ sent[u].op = "enable_feature" /\ call[u] = "raised" /\ pc[u] = "failed"

\* A notification of a state other than "disconnected" is handled in this
\* step: no coroutine, pipeline call or inbound event moves.
OtherStateStep ==
    /\ conn' # "disconnected"
    /\ pc' = pc /\ call' = call /\ cb' = cb /\ nextId' = nextId

\* C14: a connection-state notification other than "disconnected" (the
\* connected one) leaves every inbox with the contents it had, and changes
\* nothing else of the client.
C14_OtherStateNoEffect ==
    [][OtherStateStep =>
          /\ DOMAIN inbox' = DOMAIN inbox
          /\ \A b \in DOMAIN inbox : inbox'[b] = inbox[b]
          /\ UNCHANGED <<feature_enabled, box, result, returned, routed, sent, stale>>]_vars

\* Witness: the last notification was "connected", and a message that was
\* queued before the disconnect that preceded it is still queued.
C14_Witness ==
    /\ conn = "connected"
    /\ \E b \in DOMAIN inbox :
           \E e \in Range(inbox[b]) : \E k \in stale : e.id < k

\* The receive call of t is suspended in get() on an empty inbox.
WaitingOnEmpty(t) ==
    op[t] \in ReceiveOps /\ pc[t] = "await_get" /\ Queued(TargetOf(t)) = <<>>

\* The event t has returned was routed to its inbox while t was suspended.
ReturnedLater(t) ==
    \E i \in 1..Len(routed) :
        /\ routed[i].ev = result[t]
        /\ routed[i].box = TargetOf(t)
        /\ t \in routed[i].waiting

\* C15: a receive call leaves its wait only by returning the oldest item of
\* its inbox, in a step that finds the inbox non-empty; the inbox of a
\* suspended call becomes non-empty only by the put of a newly routed event,
\* not by a connect, a disconnect, a clear or the completion of another call;
\* and a call suspended on an empty inbox returns only an event that was
\* routed to that inbox after the call suspended.
C15_UnblockedOnlyByPut ==
    /\ [][\A t \in Tasks :
            (op[t] \in ReceiveOps /\ pc[t] = "await_get" /\ pc'[t] # "await_get")
                => /\ pc'[t] = "done"
                   /\ Queued(TargetOf(t)) # <<>>
                   /\ result'[t] = Head(Queued(TargetOf(t)))
                   /\ result'[t] \in Range(EventsTo(TargetOf(t)))]_vars
    /\ [][\A t \in Tasks :
            (WaitingOnEmpty(t) /\ inbox'[TargetOf(t)] # <<>>)
                => /\ nextId' = nextId + 1
                   /\ Len(routed') = Len(routed) + 1
                   /\ routed'[Len(routed')].box = TargetOf(t)
                   /\ inbox'[TargetOf(t)] = <<routed'[Len(routed')].ev>>
                   /\ pc' = pc]_vars
    /\ \A t \in Tasks :
           [](WaitingOnEmpty(t) => [](pc[t] = "done" => ReturnedLater(t)))

\* Witness: a receive call returned the first event routed to its inbox, which
\* arrived while the call was suspended and after a connect or disconnect call
\* made later than the receive call had completed.
C15_Witness ==
    \E t \in Tasks, u \in Tasks, i \in 1..Len(routed) :
        /\ op[t] \in ReceiveOps /\ pc[t] = "done"
        /\ result[t] = routed[i].ev
        /\ t \in routed[i].waiting
        /\ \A k \in 1..(i - 1) : routed[k].box # TargetOf(t)
        /\ t < u /\ op[u] \in {"connect", "disconnect"} /\ u \in routed[i].finished
        /\ conn = "disconnected"

\* The receive call of t is suspended in get() while event i is queued in the
\* inbox it names.
WaitingWith(t, i) ==
    /\ op[t] \in ReceiveOps /\ pc[t] = "await_get"
    /\ \E e \in Range(Queued(TargetOf(t))) : e.id = i

\* C16: under the event loop's scheduling no receive call stays suspended
\* while its inbox holds an item; a call suspended on an inbox that holds an
\* event returns, unless that event is returned by another call.
C16_DeliveryLiveness ==
    /\ \A t \in Tasks :
           (op[t] \in ReceiveOps /\ pc[t] = "await_get" /\ Queued(TargetOf(t)) # <<>>)
               ~> (pc[t] = "done" \/ Queued(TargetOf(t)) = <<>>)
    /\ \A t \in Tasks, i \in 1..MaxEvents :
           WaitingWith(t, i)
               ~> \/ pc[t] = "done"
                  \/ \E u \in Tasks \ {t} : pc[u] = "done" /\ result[u].id = i

\* Witness: a call that went straight to its inbox (the feature was enabled)
\* after a message had been routed there has returned that message, across a
\* disconnect.
C16_Witness ==
    \E t \in Tasks, i \in 1..Len(routed) :
        /\ op[t] = "receive_input_message" /\ pc[t] = "done"
        /\ conn = "disconnected"
        /\ ~Enabling(t)
        /\ result[t] = routed[i].ev
        /\ t \notin routed[i].waiting
        /\ routed[i].box = TargetOf(t)

\* C17: what send_d2c_message and send_to_output hand to the pipeline is a
\* Message: the argument itself when it is one, a new Message around it
\* otherwise; and the Message handed to send_output_event by send_to_output
\* carries the output name of the call from the moment the call is made.
C17_EnvelopeNormalised ==
    \A t \in Tasks :
        (op[t] \in {"send_d2c_message", "send_to_output"} /\ pc[t] # "idle")
            => LET a == arg[t].message
                   m == sent[t].message
               IN  /\ m.isMessage
                   /\ m.data = a.data
                   /\ a.isMessage => m.obj = a.obj
                   /\ ~a.isMessage => m.obj = "new"
                   /\ op[t] = "send_d2c_message"
                          => (sent[t].op = "send_d2c_message" /\ m.output_name = a.output_name)
                   /\ op[t] = "send_to_output"
                          => (sent[t].op = "send_output_event"
                              /\ m.output_name = arg[t].output_name)

\* Witness: a send_to_output call with a payload that is not a Message and a
\* send_d2c_message call with a Message are both with the pipeline.
C17_Witness ==
    \E t \in Tasks, u \in Tasks :
        /\ op[t] = "send_to_output" /\ ~arg[t].message.isMessage
        /\ arg[t].output_name \in OutputNames
        /\ call[t] = "running" /\ pc[t] = "await_call"
        /\ op[u] = "send_d2c_message" /\ arg[u].message.isMessage
        /\ call[u] = "running"

\* How many queue slots hold event e, how many receive calls have returned
\* it, and whether a disconnect has discarded it.
QueuedCount(e) ==
    Cardinality({s \in (DOMAIN inbox) \X (1..MaxEvents) :
                    s[2] <= Len(inbox[s[1]]) /\ inbox[s[1]][s[2]] = e})
ReturnedCount(e) ==
    Cardinality({t \in Tasks : op[t] \in ReceiveOps /\ pc[t] = "done" /\ result[t] = e})
DiscardedCount(e) == IF e.cat = "method" /\ e.id \in stale THEN 1 ELSE 0

\* C18: every event handed to a handler is in exactly one condition: queued
\* in one inbox, returned by one receive call, or (a method request) discarded
\* by a disconnect; and what is queued, and what a receive call returns, is
\* one of the events that were handed in, whole.
C18_Conservation ==
    /\ \A i \in 1..Len(routed) :
           LET e == routed[i].ev
           IN  /\ e.id = i
               /\ QueuedCount(e) + ReturnedCount(e) + DiscardedCount(e) = 1
               /\ QueuedCount(e) = 1 => e \in Range(Queued(routed[i].box))
               /\ e.cat # "method" => e.id \notin stale
    /\ \A b \in DOMAIN inbox : \A e \in Range(inbox[b]) : e \in Range(EventsTo(b))
    /\ \A t \in Tasks :
           (op[t] \in ReceiveOps /\ pc[t] = "done")
               => \E i \in 1..Len(routed) : result[t] = routed[i].ev
    /\ \A t \in Tasks : pc[t] # "done" => result[t] = NoEvent

\* Witness: of two requests handed in, one was discarded by a disconnect and
\* the other has been returned by a receive call.
C18_Witness ==
    \E i \in 1..Len(routed), j \in 1..Len(routed), t \in Tasks :
        /\ i # j
        /\ DiscardedCount(routed[i].ev) = 1
        /\ pc[t] = "done" /\ result[t] = routed[j].ev
        /\ QueuedCount(routed[j].ev) = 0

\* The feature of the category of a receive operation.
FeatureOf(o) ==
    CASE o = "receive_method_request" -> METHODS
      [] o = "receive_c2d_message" -> C2D_MSG
      [] o = "receive_input_message" -> INPUT_MSG
      [] OTHER -> None

\* C19: a receive call that finds the flag of its own feature false calls
\* enable_feature for that feature, one that finds it true goes straight to
\* the wait on its inbox with no pipeline call; only receive calls request
\* enabling, each for its own feature, and no step turns a flag off.
C19_EnableOwnFeatureOnly ==
    /\ [][\A t \in Tasks :
            (pc[t] = "idle" /\ pc'[t] # "idle" /\ op'[t] \in ReceiveOps)
                => IF feature_enabled[FeatureOf(op'[t])]
                   THEN /\ pc'[t] = "await_get"
                        /\ sent'[t] = NoSent /\ call'[t] = "none" /\ cb'[t] = "none"
                   ELSE /\ pc'[t] = "await_enable"
                        /\ sent'[t] = [NoSent EXCEPT !.op = "enable_feature",
                                                     !.feature = FeatureOf(op'[t])]
                        /\ call'[t] = "running"]_vars
    /\ [][\A f \in Features : feature_enabled[f] => feature_enabled'[f]]_vars
    /\ [](\A t \in Tasks :
            sent[t].op = "enable_feature"
                => (op[t] \in ReceiveOps /\ sent[t].feature = FeatureOf(op[t])))

\* Witness: one call enabled its feature, and a later call of the same
\* category found the flag true and is at its inbox without a pipeline call.
C19_Witness ==
    \E t \in Tasks, u \in Tasks :
        /\ t < u /\ op[t] \in ReceiveOps /\ op[u] = op[t]
        /\ Enabling(t) /\ cb[t] = "ok" /\ feature_enabled[FeatureOf(op[t])]
        /\ pc[u] \in {"await_get", "done"} /\ sent[u] = NoSent /\ call[u] = "none"

\* A receive_method_request(m) call has been made and has not failed.
Invoked(m) ==
    \E t \in Tasks :
        /\ op[t] = "receive_method_request" /\ arg[t].key = m
        /\ pc[t] \in {"await_enable", "await_get", "done"}

\* C20: once receive_method_request(M) has been called, every request named M
\* delivered afterwards is put in the inbox of M and not in the generic one,
\* also while that call is still enabling the feature.
C20_SpecificOnceInvoked ==
    [][\A m \in MethodNames :
          (/\ Len(routed') = Len(routed) + 1
           /\ routed'[Len(routed')].ev.cat = "method"
           /\ routed'[Len(routed')].ev.name = m
           /\ Invoked(m))
              => routed'[Len(routed')].box = <<"method", m>>]_vars

====
